---- MODULE Spec2Model ----
(***************************************************************************)
(* A model of tiq-db: the tag association engine (TiqDB.prototype.associate *)
(* and TiqDB.prototype.describe) on top of a relational store with the two  *)
(* tables created by TiqDB.prototype.createSchema.                          *)
(*                                                                          *)
(* The store is modelled at the level of committed rows plus, per running   *)
(* transaction, the rows it has written and not yet committed.  A statement *)
(* of a transaction reads the committed rows and its own writes (read       *)
(* committed).  Every query of a call is one step.                          *)
(*                                                                          *)
(* The instance keeps the memoized promise of createSchema (schemaCreated)   *)
(* and the operations exit waits for (pendingOperations).                   *)
(***************************************************************************)
EXTENDS Integers, Sequences, FiniteSets, TLC

(***************************************************************************)
(* Bounds of the model.                                                     *)
(***************************************************************************)
MaxLen == 2                        \* longest tokens / tags collection
MaxNow == 1                        \* last tick of the clock that is told apart
MaxIds == 3                        \* highest id concurrent callers let tags reach

Texts == {"a", "b", "c"}           \* label texts
FewTexts == {"a", "b"}             \* texts used where two namespaces or two
                                   \*   callers are at work
Namespaces == {"public", "private"}
Undefined == "undefined"           \* the ns argument left out by the caller
Procs == {1, 2}                    \* callers

VARIABLES
  tags,               \* committed rows of table tags
  tags_associations,  \* committed rows of table tags_associations, in rowid order
  now,                \* the wall clock read by new Date()
  call,               \* call[p]: the arguments captured by p's running call
  txn,                \* txn[p]: p's running transaction: the query it waits
                      \*   for (pc), its scope object, its uncommitted writes
  outcome,            \* outcome[p]: how p's latest call settled
  result,             \* result[p]: the value p's latest call resolved to
  returned,           \* returned[p]: what p's latest call returned to its
                      \*   caller: a promise, or undefined
  schemaCreated,      \* tiq.schemaCreated: undefined, or the state of the
                      \*   promise createSchema stored in it
  ddl,                \* how many times the table checks of createSchema
                      \*   have been issued
  pendingOperations,  \* tiq.pendingOperations: whether it is an array (it is
                      \*   undefined at first) and the callers whose
                      \*   promises it holds
  exiting,            \* the Promise.all of exit: its state and the promises
                      \*   it still waits for
  pool                \* Knex.knex.client.pool: "open" or "destroyed"

vars == <<tags, tags_associations, now, call, txn, outcome, result, returned,
          schemaCreated, ddl, pendingOperations, exiting, pool>>

(***************************************************************************)
(* lodash helpers, as the code uses them.                                   *)
(***************************************************************************)
Range(s) == {s[i] : i \in 1..Len(s)}

Contains(s, x) == \E i \in 1..Len(s) : s[i] = x

RECURSIVE Uniq(_)
Uniq(s) ==
  IF s = <<>> THEN <<>>
  ELSE LET front == Uniq(SubSeq(s, 1, Len(s) - 1))
           x == s[Len(s)]
       IN  IF Contains(front, x) THEN front ELSE Append(front, x)

Difference(s, t) == SelectSeq(s, LAMBDA x : ~Contains(t, x))

Xor(s, t) == Uniq(Difference(s, t) \o Difference(t, s))

Reverse(s) == [i \in 1..Len(s) |-> s[Len(s) + 1 - i]]

Values(assoc) == <<assoc.tag_id1, assoc.tag_id2>>

PluckText(rows) == [i \in 1..Len(rows) |-> rows[i].text]

PluckId(rows) == [i \in 1..Len(rows) |-> rows[i].id]

RECURSIVE Flatten(_)
Flatten(ss) == IF ss = <<>> THEN <<>> ELSE Head(ss) \o Flatten(Tail(ss))

(***************************************************************************)
(* equalArrays: equal, or equal once the second array is reversed.          *)
(***************************************************************************)
EqualArraysNoReverse(arr1, arr2) == arr1 = arr2

EqualArrays(arr1, arr2) == arr1 = arr2 \/ arr1 = Reverse(arr2)

(***************************************************************************)
(* The store.  A row of tags is [id, text, namespace, count, created_at,    *)
(* updated_at]; a row of tags_associations is [tag_id1, tag_id2].  A        *)
(* statement of a transaction sees the committed rows and the rows the      *)
(* transaction wrote itself.                                                *)
(***************************************************************************)
NoTrans == [tags |-> {}, assocs |-> <<>>, bump |-> {}, at |-> 0]

\* the variables the handlers of a call share; allIds, answered and ids are
\* describe's: the results of its queries, which of them have arrived, and
\* their intersection
NoScope == [existingTags |-> <<>>, missingTagsRaw |-> <<>>, fetchedTags |-> <<>>,
            missingAssocs |-> <<>>, date |-> 0,
            allIds |-> <<>>, answered |-> {}, ids |-> <<>>]

\* atStart keeps, for a describe, the texts that were its answer on the rows
\* committed when it was called
NoTxn == [pc |-> "idle", scope |-> NoScope, trans |-> NoTrans, error |-> "none",
          atStart |-> {}]

NoCall == [op |-> "none", allTags |-> <<>>, tokens |-> {}, tags |-> {},
           uniqTokens |-> <<>>, text |-> "", ns |-> ""]

\* tiq.pendingOperations before the first holdOperation: undefined
NoOperations == [isArray |-> FALSE, promises |-> <<>>]

\* exit has not been called
NoExit == [state |-> "none", waits |-> {}, outstanding |-> {}]

TxnPcs == {"fetchTags", "insertTags", "refetchTags", "fetchAssocs",
           "insertAssocs", "updateCounts", "commit"}

MaxId(rows) == IF rows = {} THEN 0
               ELSE CHOOSE m \in {r.id : r \in rows} : \A r \in rows : r.id <= m

RECURSIVE SortById(_)
SortById(rows) ==
  IF rows = {} THEN <<>>
  ELSE LET r == CHOOSE x \in rows : \A y \in rows : x.id <= y.id
       IN  <<r>> \o SortById(rows \ {r})

SelectTagsAnyNs(rows, texts, ns) ==
  LET hit == SortById({r \in rows : Contains(texts, r.text)})
  IN  [i \in 1..Len(hit) |-> [id |-> hit[i].id, text |-> hit[i].text]]

\* select id, text from tags where text in (texts) and namespace = ns
SelectTags(rows, texts, ns) ==
  LET hit == SortById({r \in rows : Contains(texts, r.text) /\ r.namespace = ns})
  IN  [i \in 1..Len(hit) |-> [id |-> hit[i].id, text |-> hit[i].text]]

\* select tag_id1, tag_id2 from tags_associations where tag_id1 in (ids)
SelectAssocs(assocs, ids) ==
  SelectSeq(assocs, LAMBDA e : Contains(ids, e.tag_id1))

\* t.increments(): the rows of one insert get ascending ids above base, the
\* highest id in use; count defaults to 0
NewTagRows(base, texts, ns, date) ==
  {[id |-> base + i, text |-> texts[i], namespace |-> ns, count |-> 0,
    created_at |-> date, updated_at |-> date] : i \in 1..Len(texts)}

\* t.unique(['text', 'namespace']), against the visible rows and within the insert
TagsUniqueViolated(rows, texts, ns) ==
  \/ \E r \in rows : r.namespace = ns /\ Contains(texts, r.text)
  \/ \E i, j \in 1..Len(texts) : i # j /\ texts[i] = texts[j]

\* t.unique(['tag_id1', 'tag_id2']): the ordered pair is the key
AssocsUniqueViolated(assocs, new) ==
  \/ \E i \in 1..Len(new) : Contains(assocs, new[i])
  \/ \E i, j \in 1..Len(new) : i # j /\ new[i] = new[j]

(***************************************************************************)
(* The computations of associate's promise handlers.                        *)
(***************************************************************************)
AllTags(tokens, tagz) == Uniq(tokens \o tagz)

MissingTagsRawAll(allTags, existingTags) == allTags

MissingTagsRaw(allTags, existingTags) == Xor(allTags, PluckText(existingTags))

\* ids of the fetched labels whose text is one of the tags
TagIds(fetchedTags, tagz) ==
  PluckId(SelectSeq(fetchedTags, LAMBDA t : t.text \in tagz))

TokenIdsAll(fetchedTags, tagz) == PluckId(fetchedTags)

\* ids of all the others
TokenIds(fetchedTags, tagz) ==
  PluckId(SelectSeq(fetchedTags, LAMBDA t : t.text \notin tagz))

AssociationsTokenFirst(tagIds, tokenIds) ==
  Flatten([i \in 1..Len(tagIds) |->
            [j \in 1..Len(tokenIds) |->
               [tag_id1 |-> tokenIds[j], tag_id2 |-> tagIds[i]]]])

\* one association per tag and token, tag first
Associations(tagIds, tokenIds) ==
  Flatten([i \in 1..Len(tagIds) |->
            [j \in 1..Len(tokenIds) |->
               [tag_id1 |-> tagIds[i], tag_id2 |-> tokenIds[j]]]])

MissingAssocs(associations, existingAssocs) ==
  SelectSeq(associations, LAMBDA assoc :
     ~ \E i \in 1..Len(existingAssocs) :
           EqualArrays(Values(assoc), Values(existingAssocs[i])))

\* ids whose count is incremented: both columns of the inserted rows
CountIdsAll(fetchedTags, missingAssocs) ==
  IF missingAssocs = <<>> THEN {} ELSE Range(PluckId(fetchedTags))

CountIds(fetchedTags, missingAssocs) ==
  {missingAssocs[i].tag_id1 : i \in 1..Len(missingAssocs)}
    \cup {missingAssocs[i].tag_id2 : i \in 1..Len(missingAssocs)}

(***************************************************************************)
(* One query of associate's transaction and the handler that receives its   *)
(* result.  c is the call, t the transaction, ctags and cassocs the         *)
(* committed rows, base the highest id in use, date the clock.              *)
(***************************************************************************)
Failed(t, error) == [t EXCEPT !.pc = "failed", !.error = error]

\* "Fetch existing tags", then the handler that builds the missing ones
FetchTagsStep(c, t, ctags, date) ==
  LET existingTags == SelectTags(ctags \cup t.trans.tags, c.allTags, c.ns)
      missingTagsRaw == MissingTagsRaw(c.allTags, existingTags)
  IN  [t EXCEPT !.scope.existingTags = existingTags,
                !.scope.missingTagsRaw = missingTagsRaw,
                !.scope.fetchedTags = IF missingTagsRaw = <<>>
                                      THEN existingTags ELSE <<>>,
                !.scope.date = date,
                !.pc = IF missingTagsRaw = <<>> THEN "fetchAssocs"
                                                ELSE "insertTags"]

\* "Create missing tags": the bulk insert
InsertTagsStep(c, t, ctags, base) ==
  IF TagsUniqueViolated(ctags \cup t.trans.tags, t.scope.missingTagsRaw, c.ns)
  THEN Failed(t, "unique_violation")
  ELSE [t EXCEPT !.trans.tags = @ \cup NewTagRows(base, t.scope.missingTagsRaw,
                                                  c.ns, t.scope.date),
                 !.pc = "refetchTags"]

\* the query that reads the newly created tags back
RefetchTagsStep(c, t, ctags) ==
  LET missingTags == SelectTags(ctags \cup t.trans.tags,
                                t.scope.missingTagsRaw, c.ns)
  IN  [t EXCEPT !.scope.fetchedTags = t.scope.existingTags \o missingTags,
                !.pc = "fetchAssocs"]

LookupIdsOfTags(fetchedTags, tagz) == TagIds(fetchedTags, tagz)

\* the ids the existing associations are looked up by: var tagIds =
\* _.pluck(scope.fetchedTags, 'id'), tokens and tags alike
LookupIds(fetchedTags, tagz) == PluckId(fetchedTags)

\* "Fetch existing associations", then the handler that builds the missing ones
FetchAssocsStep(c, t, cassocs) ==
  LET fetchedTags == t.scope.fetchedTags
      existingAssocs == SelectAssocs(cassocs \o t.trans.assocs,
                                     LookupIds(fetchedTags, c.tags))
      tagIds == TagIds(fetchedTags, c.tags)
      tokenIds == TokenIds(fetchedTags, c.tags)
      missingAssocs == MissingAssocs(Associations(tagIds, tokenIds),
                                     existingAssocs)
  IN  [t EXCEPT !.scope.missingAssocs = missingAssocs,
                !.pc = IF missingAssocs = <<>> THEN "commit"
                                               ELSE "insertAssocs"]

\* "Create the missing associations", then the handler that builds the
\* count update
InsertAssocsStep(c, t, cassocs, date) ==
  IF AssocsUniqueViolated(cassocs \o t.trans.assocs, t.scope.missingAssocs)
  THEN Failed(t, "unique_violation")
  ELSE [t EXCEPT !.trans.assocs = @ \o t.scope.missingAssocs,
                 !.scope.date = date,
                 !.pc = "updateCounts"]

\* "Increment the association count for each tag"
UpdateCountsStep(c, t) ==
  [t EXCEPT !.trans.bump = CountIds(t.scope.fetchedTags, t.scope.missingAssocs),
            !.trans.at = t.scope.date,
            !.pc = "commit"]

TxnStep(c, t, ctags, cassocs, base, date) ==
  CASE t.pc = "fetchTags"    -> FetchTagsStep(c, t, ctags, date)
    [] t.pc = "insertTags"   -> InsertTagsStep(c, t, ctags, base)
    [] t.pc = "refetchTags"  -> RefetchTagsStep(c, t, ctags)
    [] t.pc = "fetchAssocs"  -> FetchAssocsStep(c, t, cassocs)
    [] t.pc = "insertAssocs" -> InsertAssocsStep(c, t, cassocs, date)
    [] t.pc = "updateCounts" -> UpdateCountsStep(c, t)
    [] OTHER                 -> t

\* the transaction run query by query up to its commit or its failure
RECURSIVE RunQueries(_, _, _, _, _, _)
RunQueries(c, t, ctags, cassocs, base, date) ==
  IF t.pc \in {"commit", "failed"} THEN t
  ELSE CHOOSE end \in {RunQueries(c, next, ctags, cassocs, base, date) :
                         next \in {TxnStep(c, t, ctags, cassocs, base, date)}} : TRUE

\* a row after the transaction's count update
Updated(r, trans) ==
  IF r.id \in trans.bump
  THEN [r EXCEPT !.count = @ + 1, !.updated_at = trans.at]
  ELSE r

\* trans.commit(): the writes of the transaction become committed rows
CommittedTags(ctags, trans) == {Updated(r, trans) : r \in ctags \cup trans.tags}

CommittedAssocsOnly(cassocs, trans) == trans.assocs

CommittedAssocs(cassocs, trans) == cassocs \o trans.assocs

\* trans.rollback: the writes of the transaction are dropped
RolledBackTagsKeep(ctags, trans) == ctags \cup trans.tags

RolledBackTags(ctags, trans) == ctags

RolledBackAssocs(cassocs, trans) == cassocs

(***************************************************************************)
(* describe: the per-token query, the intersection and the final lookup.    *)
(***************************************************************************)
NeighbourIdsForward(ctags, cassocs, tok, ns) ==
  LET ids == {r.id : r \in {x \in ctags : x.text = tok /\ x.namespace = ns}}
      joined == SelectSeq(cassocs, LAMBDA e : e.tag_id1 \in ids)
  IN  [i \in 1..Len(joined) |-> joined[i].tag_id2]

\* select (case when tag_id1 = id then tag_id2 when tag_id2 = id then tag_id1
\* end) id from tags_associations join tags on tag_id1 = id or tag_id2 = id
\* where text = tok and namespace = ns
NeighbourIds(ctags, cassocs, tok, ns) ==
  LET ids == {r.id : r \in {x \in ctags : x.text = tok /\ x.namespace = ns}}
      joined == SelectSeq(cassocs, LAMBDA e : e.tag_id1 \in ids \/ e.tag_id2 \in ids)
  IN  [i \in 1..Len(joined) |->
         IF joined[i].tag_id1 \in ids THEN joined[i].tag_id2
                                      ELSE joined[i].tag_id1]

IntersectionFirst(allIds) == IF allIds = <<>> THEN <<>> ELSE Uniq(allIds[1])

\* _.intersection: the distinct values of the first array found in all others
Intersection(allIds) ==
  IF allIds = <<>> THEN <<>>
  ELSE Uniq(SelectSeq(allIds[1], LAMBDA x :
              \A k \in 2..Len(allIds) : Contains(allIds[k], x)))

TextsOfAll(ctags, ids) == PluckText(SortById(ctags))

\* select text from tags where id in (ids), plucked
TextsOf(ctags, ids) ==
  PluckText(SortById({r \in ctags : Contains(ids, r.id)}))

DescribeIds(ctags, cassocs, uniqTokens, ns) ==
  Intersection([i \in 1..Len(uniqTokens) |->
                  NeighbourIds(ctags, cassocs, uniqTokens[i], ns)])

DescribeResult(ctags, cassocs, uniqTokens, ns) ==
  LET ids == DescribeIds(ctags, cassocs, uniqTokens, ns)
  IN  IF ids = <<>> THEN ids ELSE TextsOf(ctags, ids)

(***************************************************************************)
(* search: where text like '%' + text + '%' and namespace = ns.  The texts   *)
(* of the model are single characters, so a row's text holds the searched   *)
(* text when it is that text.                                               *)
(***************************************************************************)
Like(rowText, text) == rowText = text

SearchResult(ctags, text, ns) ==
  PluckText(SortById({r \in ctags : Like(r.text, text) /\ r.namespace = ns}))

(***************************************************************************)
(* What describe is to answer on given rows.                                *)
(***************************************************************************)
\* the rows of ctags with the text and the namespace
Labels(ctags, text, ns) == {r \in ctags : r.text = text /\ r.namespace = ns}

\* the positions of the rows of cassocs joining ids x and y
EdgesBetween(cassocs, x, y) ==
  {i \in 1..Len(cassocs) : {cassocs[i].tag_id1, cassocs[i].tag_id2} = {x, y}}

\* the labels joined by a row of cassocs with the label (tok, ns)
AdjacentTo(ctags, cassocs, tok, ns) ==
  {r \in ctags : \E l \in Labels(ctags, tok, ns) :
                    EdgesBetween(cassocs, l.id, r.id) # {}}

\* the texts of the labels joined with the label of every token
CommonTexts(ctags, cassocs, tokens, ns) ==
  {r.text : r \in {x \in ctags : \A tok \in tokens :
                                   x \in AdjacentTo(ctags, cassocs, tok, ns)}}

(***************************************************************************)
(* Inputs of the callers.                                                   *)
(***************************************************************************)
SeqsOver(S, n) == UNION {[1..k -> S] : k \in 0..n}

\* every row of tags in the store, committed or not
AllTagRows == tags \cup UNION {txn[q].trans.tags : q \in Procs}

\* what associate captures of its arguments
CallOf(tokens, tagz, nsArg) ==
  [op |-> "associate", allTags |-> AllTags(tokens, tagz),
   tokens |-> Range(tokens), tags |-> Range(tagz), uniqTokens |-> <<>>,
   text |-> "",
   ns |-> IF nsArg = Undefined THEN "public" ELSE nsArg]

\* what describe captures of its arguments
DescribeCallOf(tokens, nsArg) ==
  [op |-> "describe", allTags |-> <<>>, tokens |-> Range(tokens), tags |-> {},
   uniqTokens |-> Uniq(tokens), text |-> "",
   ns |-> IF nsArg = Undefined THEN "public" ELSE nsArg]

\* what search captures of its arguments
SearchCallOf(text, nsArg) ==
  [op |-> "search", allTags |-> <<>>, tokens |-> {}, tags |-> {},
   uniqTokens |-> <<>>, text |-> text,
   ns |-> IF nsArg = Undefined THEN "public" ELSE nsArg]

\* the call waits for the promise of createSchema
AwaitSchema == [NoTxn EXCEPT !.pc = "createSchema"]

\* knex.transaction has called its handler, which issued the first query
BeginTxn == [NoTxn EXCEPT !.pc = "fetchTags"]

Tick(t) == IF t < MaxNow THEN t + 1 ELSE t

(***************************************************************************)
(* Initial state: the instance has been constructed, the tables are empty,  *)
(* nobody is calling.                                                       *)
(***************************************************************************)
Init ==
  /\ tags = {}
  /\ tags_associations = <<>>
  /\ now = 0
  /\ call = [p \in Procs |-> NoCall]
  /\ txn = [p \in Procs |-> NoTxn]
  /\ outcome = [p \in Procs |-> "none"]
  /\ result = [p \in Procs |-> <<>>]
  /\ returned = [p \in Procs |-> "none"]
  /\ schemaCreated = Undefined
  /\ ddl = 0
  /\ pendingOperations = NoOperations
  /\ exiting = NoExit
  /\ pool = "open"

(***************************************************************************)
(* createSchema, holdOperation and exit.                                    *)
(***************************************************************************)
MemoizedNever(created) == FALSE

MemoizedUnlessRejected(created) == created \notin {Undefined, "rejected"}

\* typeof tiq.schemaCreated !== 'undefined'
Memoized(created) == created # Undefined

\* createSchema(): the stored promise, or a new one whose table checks are
\* issued at once
CreateSchema ==
  /\ schemaCreated' = IF Memoized(schemaCreated) THEN schemaCreated ELSE "pending"
  /\ ddl' = IF Memoized(schemaCreated) THEN ddl ELSE ddl + 1

\* holdOperation(promise): this.pendingOperations = [promise]
HoldOperation(ops, p) == [isArray |-> TRUE, promises |-> <<p>>]

\* Promise.all(this.pendingOperations) when exit is called: rejected for a
\* value that is no array and when a promise is rejected already, else
\* waiting for the promises that are pending
PromiseAll(ops, outc) ==
  IF \/ ~ops.isArray
     \/ \E q \in Range(ops.promises) : outc[q] \notin {"pending", "fulfilled"}
  THEN [NoExit EXCEPT !.state = "rejected"]
  ELSE [NoExit EXCEPT !.state = "waiting",
                      !.waits = {q \in Range(ops.promises) : outc[q] = "pending"}]

\* the Promise.all of exit once p's promise settled; outstanding keeps the
\* calls that were pending when exit was called and have not settled
Settled(e, p, how) ==
  LET rest == [e EXCEPT !.outstanding = @ \ {p}]
  IN  IF e.state = "waiting" /\ p \in e.waits
      THEN IF how = "fulfilled" THEN [rest EXCEPT !.waits = @ \ {p}]
           ELSE [rest EXCEPT !.state = "rejected", !.waits = {}]
      ELSE rest

\* the call's promise settles
Settle(p, how, value) ==
  /\ outcome' = [outcome EXCEPT ![p] = how]
  /\ result' = [result EXCEPT ![p] = value]
  /\ call' = [call EXCEPT ![p] = NoCall]
  /\ txn' = [txn EXCEPT ![p] = NoTxn]
  /\ exiting' = Settled(exiting, p, how)
  /\ UNCHANGED <<returned, schemaCreated, ddl, pendingOperations, pool>>

\* the last handler of associate: trans.commit() when every query succeeded,
\* trans.rollback when one was rejected
Finish(p, t) ==
  IF t.pc = "failed"
  THEN /\ tags' = RolledBackTags(tags, t.trans)
       /\ tags_associations' = RolledBackAssocs(tags_associations, t.trans)
       /\ UNCHANGED now
       /\ Settle(p, t.error, <<>>)
  ELSE /\ tags' = CommittedTags(tags, t.trans)
       /\ tags_associations' = CommittedAssocs(tags_associations, t.trans)
       /\ now' = IF t.trans = NoTrans THEN now ELSE Tick(now)
       /\ Settle(p, "fulfilled", <<>>)

(***************************************************************************)
(* The synchronous part of a call: the early return, or createSchema(),     *)
(* holdOperation(promise) and the return of the promise.                    *)
(***************************************************************************)
\* the operation returns without a value
Return(p) ==
  /\ returned' = [returned EXCEPT ![p] = "undefined"]
  /\ UNCHANGED <<tags, tags_associations, now, call, txn, outcome, result,
                 schemaCreated, ddl, pendingOperations, exiting, pool>>

\* the operation starts with the captured arguments c
Start(p, c) ==
  /\ call' = [call EXCEPT ![p] = c]
  /\ txn' = [txn EXCEPT ![p] =
                [AwaitSchema EXCEPT !.atStart =
                   IF c.op = "describe"
                   THEN CommonTexts(tags, tags_associations, c.tokens, c.ns)
                   ELSE {}]]
  /\ outcome' = [outcome EXCEPT ![p] = "pending"]
  /\ result' = [result EXCEPT ![p] = <<>>]
  /\ returned' = [returned EXCEPT ![p] = "promise"]
  /\ CreateSchema
  /\ pendingOperations' = HoldOperation(pendingOperations, p)
  /\ UNCHANGED <<tags, tags_associations, now, exiting, pool>>

EmptyArgsBoth(tokens, tagz) == Len(tokens) = 0 /\ Len(tagz) = 0

\* !tokens.length || !tags.length
EmptyArgs(tokens, tagz) == Len(tokens) = 0 \/ Len(tagz) = 0

Associate(p, tokens, tagz, nsArg) ==
  /\ txn[p].pc = "idle"
  /\ IF EmptyArgs(tokens, tagz)
     THEN Return(p)
     ELSE Start(p, CallOf(tokens, tagz, nsArg))

Describe(p, tokens, nsArg) ==
  /\ txn[p].pc = "idle"
  /\ IF Len(tokens) = 0
     THEN Return(p)
     ELSE Start(p, DescribeCallOf(tokens, nsArg))

Search(p, text, nsArg) ==
  /\ txn[p].pc = "idle"
  /\ IF text = ""
     THEN Return(p)
     ELSE Start(p, SearchCallOf(text, nsArg))

\* a call of createSchema by the user of the instance
CreateSchemaCall ==
  /\ CreateSchema
  /\ UNCHANGED <<tags, tags_associations, now, call, txn, outcome, result,
                 returned, pendingOperations, exiting, pool>>

\* the table checks and CREATE TABLE statements of createSchema succeed
SchemaResolves ==
  /\ schemaCreated = "pending"
  /\ schemaCreated' = "fulfilled"
  /\ UNCHANGED <<tags, tags_associations, now, call, txn, outcome, result,
                 returned, ddl, pendingOperations, exiting, pool>>

\* one of them is rejected by the store
SchemaRejects ==
  /\ schemaCreated = "pending"
  /\ schemaCreated' = "rejected"
  /\ UNCHANGED <<tags, tags_associations, now, call, txn, outcome, result,
                 returned, ddl, pendingOperations, exiting, pool>>

\* the rejection of createSchema's promise reaches the promise of p's call
SchemaError(p) ==
  /\ txn[p].pc = "createSchema"
  /\ schemaCreated = "rejected"
  /\ Settle(p, "schema_error", <<>>)
  /\ UNCHANGED <<tags, tags_associations, now>>

\* exit(): Promise.all(this.pendingOperations).then(destroy)
Exit ==
  /\ exiting.state = "none"
  /\ exiting' = [PromiseAll(pendingOperations, outcome) EXCEPT
                   !.outstanding = {q \in Procs : outcome[q] = "pending"}]
  /\ UNCHANGED <<tags, tags_associations, now, call, txn, outcome, result,
                 returned, schemaCreated, ddl, pendingOperations, pool>>

\* the handler of exit: Knex.knex.client.pool.destroy()
Destroy ==
  /\ exiting.state = "waiting"
  /\ exiting.waits = {}
  /\ exiting' = [exiting EXCEPT !.state = "done"]
  /\ pool' = "destroyed"
  /\ UNCHANGED <<tags, tags_associations, now, call, txn, outcome, result,
                 returned, schemaCreated, ddl, pendingOperations>>

(***************************************************************************)
(* A call that runs with no query of another caller in between.             *)
(***************************************************************************)
\* associate's transaction from its first query to commit or rollback
Transaction(p) ==
  /\ call[p].op = "associate"
  /\ txn[p].pc = "createSchema"
  /\ schemaCreated = "fulfilled"
  /\ Finish(p, RunQueries(call[p], BeginTxn, tags, tags_associations,
                          MaxId(AllTagRows), now))

\* describe's queries and lookup
DescribeRun(p) ==
  /\ call[p].op = "describe"
  /\ txn[p].pc = "createSchema"
  /\ schemaCreated = "fulfilled"
  /\ Settle(p, "fulfilled",
            DescribeResult(tags, tags_associations, call[p].uniqTokens, call[p].ns))
  /\ UNCHANGED <<tags, tags_associations, now>>

\* search's query
SearchRun(p) ==
  /\ call[p].op = "search"
  /\ txn[p].pc = "createSchema"
  /\ schemaCreated = "fulfilled"
  /\ Settle(p, "fulfilled", SearchResult(tags, call[p].text, call[p].ns))
  /\ UNCHANGED <<tags, tags_associations, now>>

(***************************************************************************)
(* The argument lists of the callers.  associate captures of its arguments  *)
(* allTags and which texts are tokens and which are tags, describe the      *)
(* deduplicated tokens; of the lists that are captured alike the callers    *)
(* use one.  A call with an empty list is kept as a kind of its own.        *)
(***************************************************************************)
AssociateKey(i) ==
  IF i[1] = <<>> \/ i[2] = <<>> THEN <<>>
  ELSE <<AllTags(i[1], i[2]), Range(i[1]), Range(i[2])>>

AssociateArgs ==
  LET all == SeqsOver(Texts, MaxLen) \X SeqsOver(Texts, MaxLen)
  IN  {CHOOSE i \in all : AssociateKey(i) = k : k \in {AssociateKey(i) : i \in all}}

FewAssociateArgs ==
  LET all == SeqsOver(FewTexts, MaxLen) \X SeqsOver(FewTexts, MaxLen)
  IN  {CHOOSE i \in all : AssociateKey(i) = k : k \in {AssociateKey(i) : i \in all}}

DescribeArgs ==
  LET all == SeqsOver(Texts, MaxLen)
  IN  {CHOOSE i \in all : Uniq(i) = k : k \in {Uniq(i) : i \in all}}

FewDescribeArgs ==
  LET all == SeqsOver(FewTexts, MaxLen)
  IN  {CHOOSE i \in all : Uniq(i) = k : k \in {Uniq(i) : i \in all}}

(***************************************************************************)
(* Spec: one caller, one namespace, three texts.  Each call completes       *)
(* before the next starts.                                                  *)
(***************************************************************************)
Next ==
  \/ \E i \in AssociateArgs : Associate(1, i[1], i[2], Undefined)
  \/ SchemaResolves
  \/ Transaction(1)

Spec == Init /\ [][Next]_vars

(***************************************************************************)
(* SpecDesc: one caller, one namespace, three texts; associate and describe *)
(* calls, each completing before the next starts.                           *)
(***************************************************************************)
NextDesc ==
  \/ \E i \in AssociateArgs : Associate(1, i[1], i[2], Undefined)
  \/ SchemaResolves
  \/ Transaction(1)
  \/ \E tokens \in DescribeArgs : Describe(1, tokens, Undefined)
  \/ DescribeRun(1)

SpecDesc == Init /\ [][NextDesc]_vars

(***************************************************************************)
(* SpecNs: one caller, two namespaces with the same two texts.              *)
(***************************************************************************)
NextNs ==
  \/ \E i \in FewAssociateArgs, nsArg \in Namespaces \cup {Undefined} :
        Associate(1, i[1], i[2], nsArg)
  \/ SchemaResolves
  \/ Transaction(1)
  \/ \E tokens \in FewDescribeArgs, nsArg \in Namespaces \cup {Undefined} :
        Describe(1, tokens, nsArg)
  \/ DescribeRun(1)

SpecNs == Init /\ [][NextNs]_vars

(***************************************************************************)
(* SpecConc: two callers whose transactions interleave query by query.      *)
(***************************************************************************)
\* an insert waits while another transaction holds an uncommitted row with
\* one of its keys
TagsInsertBlocked(p) ==
  \E q \in Procs \ {p} : \E r \in txn[q].trans.tags :
     r.namespace = call[p].ns /\ Contains(txn[p].scope.missingTagsRaw, r.text)

AssocsInsertBlocked(p) ==
  \E q \in Procs \ {p} : \E i \in 1..Len(txn[p].scope.missingAssocs) :
     Contains(txn[q].trans.assocs, txn[p].scope.missingAssocs[i])

\* update ... where id in (ids) waits for the row locks of other transactions
UpdateBlocked(p) ==
  \E q \in Procs \ {p} :
     txn[q].trans.bump
       \cap CountIds(txn[p].scope.fetchedTags, txn[p].scope.missingAssocs) # {}

\* p's pending query is answered and its handler runs
Query(p) ==
  LET t == TxnStep(call[p], txn[p], tags, tags_associations,
                   MaxId(AllTagRows), now)
  IN  IF t.pc = "failed"
      THEN Finish(p, t)
      ELSE /\ txn' = [txn EXCEPT ![p] = t]
           /\ UNCHANGED <<tags, tags_associations, now, call, outcome, result,
                          returned, schemaCreated, ddl, pendingOperations,
                          exiting, pool>>

\* createSchema's promise is fulfilled: knex.transaction calls its handler
StartTransaction(p) ==
  /\ call[p].op = "associate"
  /\ txn[p].pc = "createSchema"
  /\ schemaCreated = "fulfilled"
  /\ txn' = [txn EXCEPT ![p] = BeginTxn]
  /\ UNCHANGED <<tags, tags_associations, now, call, outcome, result,
                 returned, schemaCreated, ddl, pendingOperations, exiting, pool>>

FetchTags(p) ==
  /\ txn[p].pc = "fetchTags"
  /\ Query(p)

\* the callers stop creating labels once the ids reach MaxIds
IdsWithin(p) ==
  MaxId(AllTagRows) + Len(txn[p].scope.missingTagsRaw) <= MaxIds

InsertTags(p) ==
  /\ txn[p].pc = "insertTags"
  /\ ~TagsInsertBlocked(p)
  /\ IdsWithin(p)
  /\ Query(p)

RefetchTags(p) ==
  /\ txn[p].pc = "refetchTags"
  /\ Query(p)

FetchAssocs(p) ==
  /\ txn[p].pc = "fetchAssocs"
  /\ Query(p)

InsertAssocs(p) ==
  /\ txn[p].pc = "insertAssocs"
  /\ ~AssocsInsertBlocked(p)
  /\ Query(p)

UpdateCounts(p) ==
  /\ txn[p].pc = "updateCounts"
  /\ ~UpdateBlocked(p)
  /\ Query(p)

Commit(p) ==
  /\ txn[p].pc = "commit"
  /\ Finish(p, txn[p])

\* p's pending query is rejected by the store (connection lost, transaction
\* aborted)
QueryFails(p) ==
  /\ txn[p].pc \in TxnPcs \ {"commit"}
  /\ Finish(p, Failed(txn[p], "store_error"))

NextConc ==
  \/ SchemaResolves
  \/ \E p \in Procs :
    \/ \E tokens \in SeqsOver(FewTexts, 1), tagz \in SeqsOver(FewTexts, 1) :
          Associate(p, tokens, tagz, Undefined)
    \/ StartTransaction(p)
    \/ FetchTags(p)
    \/ InsertTags(p)
    \/ RefetchTags(p)
    \/ FetchAssocs(p)
    \/ InsertAssocs(p)
    \/ UpdateCounts(p)
    \/ Commit(p)
    \/ QueryFails(p)

SpecConc == Init /\ [][NextConc]_vars

(***************************************************************************)
(* SpecRead: one caller describes, each of its queries a step of its own    *)
(* and none of them in a transaction, while the associate calls of another  *)
(* caller, each of one token and one other text as tag, commit in between.  *)
(***************************************************************************)
\* the argument lists of the associating caller
ReadAssociateArgs ==
  {i \in SeqsOver(Texts, 1) \X SeqsOver(Texts, 1) : i[1] # i[2]}

\* createSchema's promise is fulfilled: describe's handler builds one query
\* per token and Promise.all issues them
DescribeIssue(p) ==
  /\ call[p].op = "describe"
  /\ txn[p].pc = "createSchema"
  /\ schemaCreated = "fulfilled"
  /\ txn' = [txn EXCEPT ![p].pc = "describeQueries",
                        ![p].scope.allIds = [i \in 1..Len(call[p].uniqTokens) |-> <<>>]]
  /\ UNCHANGED <<tags, tags_associations, now, call, outcome, result,
                 returned, schemaCreated, ddl, pendingOperations, exiting, pool>>

\* the query of token i is answered; with the last answer the spread handler
\* intersects the results and returns them when empty, else issues the lookup
DescribeQuery(p, i) ==
  /\ txn[p].pc = "describeQueries"
  /\ i \in (1..Len(call[p].uniqTokens)) \ txn[p].scope.answered
  /\ LET allIds == [txn[p].scope.allIds EXCEPT
                     ![i] = NeighbourIds(tags, tags_associations,
                                         call[p].uniqTokens[i], call[p].ns)]
         answered == txn[p].scope.answered \cup {i}
         ids == Intersection(allIds)
     IN  IF answered # 1..Len(call[p].uniqTokens)
         THEN /\ txn' = [txn EXCEPT ![p].scope.allIds = allIds,
                                    ![p].scope.answered = answered]
              /\ UNCHANGED <<tags, tags_associations, now, call, outcome, result,
                             returned, schemaCreated, ddl, pendingOperations,
                             exiting, pool>>
         ELSE IF ids = <<>>
         THEN /\ Settle(p, "fulfilled", ids)
              /\ UNCHANGED <<tags, tags_associations, now>>
         ELSE /\ txn' = [txn EXCEPT ![p].scope.allIds = allIds,
                                    ![p].scope.answered = answered,
                                    ![p].scope.ids = ids,
                                    ![p].pc = "describeLookup"]
              /\ UNCHANGED <<tags, tags_associations, now, call, outcome, result,
                             returned, schemaCreated, ddl, pendingOperations,
                             exiting, pool>>

\* the lookup of the texts is answered
DescribeLookup(p) ==
  /\ txn[p].pc = "describeLookup"
  /\ Settle(p, "fulfilled", TextsOf(tags, txn[p].scope.ids))
  /\ UNCHANGED <<tags, tags_associations, now>>

NextRead ==
  \/ SchemaResolves
  \/ \E tokens \in DescribeArgs : Describe(1, tokens, Undefined)
  \/ DescribeIssue(1)
  \/ \E i \in 1..MaxLen : DescribeQuery(1, i)
  \/ DescribeLookup(1)
  \/ \E i \in ReadAssociateArgs : Associate(2, i[1], i[2], Undefined)
  \/ Transaction(2)

SpecRead == Init /\ [][NextRead]_vars

(***************************************************************************)
(* SpecLife: two callers on one instance from its construction to exit.     *)
(* createSchema may fail, a call may be rejected by the store, calls may    *)
(* come at any time; the queries of one call run in one step.               *)
(***************************************************************************)
\* a query of p's call is rejected by the store
RunFails(p) ==
  /\ txn[p].pc = "createSchema"
  /\ schemaCreated = "fulfilled"
  /\ Finish(p, Failed(txn[p], "store_error"))

\* p's call settles
Runs(p) ==
  Transaction(p) \/ DescribeRun(p) \/ SearchRun(p) \/ RunFails(p) \/ SchemaError(p)

NextLife ==
  \/ CreateSchemaCall
  \/ SchemaResolves
  \/ SchemaRejects
  \/ Exit
  \/ Destroy
  \/ \E p \in Procs :
       \/ \E tokens \in SeqsOver(FewTexts, 1), tagz \in SeqsOver(FewTexts, 1) :
             Associate(p, tokens, tagz, Undefined)
       \/ \E tokens \in SeqsOver(FewTexts, 1) : Describe(p, tokens, Undefined)
       \/ \E text \in FewTexts \cup {""} : Search(p, text, Undefined)
       \/ Transaction(p)
       \/ DescribeRun(p)
       \/ SearchRun(p)
       \/ RunFails(p)
       \/ SchemaError(p)

SpecLife == Init /\ [][NextLife]_vars

\* every promise settles and every handler runs in the end
SpecLifeFair ==
  /\ SpecLife
  /\ WF_vars(SchemaResolves \/ SchemaRejects)
  /\ WF_vars(Destroy)
  /\ \A p \in Procs : WF_vars(Runs(p))

(***************************************************************************)
(* Notions used to state the properties.                                    *)
(***************************************************************************)
\* two rows of tags_associations join the same unordered pair of ids
SamePair(e, f) == {e.tag_id1, e.tag_id2} = {f.tag_id1, f.tag_id2}

\* the number of rows of tags_associations the id appears in
Degree(id) ==
  Cardinality({i \in 1..Len(tags_associations) :
                 tags_associations[i].tag_id1 = id \/ tags_associations[i].tag_id2 = id})

\* caller p's associate settles in this step
AssociateSettles(p) == call[p].op = "associate" /\ txn[p].pc # "idle" /\ txn'[p].pc = "idle"

\* caller p's associate commits in this step
AssociateCommits(p) == AssociateSettles(p) /\ outcome'[p] = "fulfilled"

\* associate(tokens, tagz, ns) run alone on the given committed rows would
\* commit without having written anything
NoWrites(tokens, tagz, ns, ctags, cassocs, date) ==
  LET t == RunQueries(CallOf(tokens, tagz, ns), BeginTxn, ctags, cassocs,
                      MaxId(ctags), date)
  IN  t.pc = "commit" /\ t.trans = NoTrans

\* the argument lists that name exactly the texts of the set
ListsOf(S) == {s \in SeqsOver(Texts, MaxLen) : Range(s) = S}

(***************************************************************************)
(* C1: whatever sequence of associate calls ran one after another,          *)
(* tags_associations holds at most one row per unordered pair of label      *)
(* ids: no row is repeated and no row is the reverse of another.            *)
(***************************************************************************)
C1_OneRowPerUnorderedPair ==
  \A i, j \in 1..Len(tags_associations) :
     i # j => ~SamePair(tags_associations[i], tags_associations[j])

\* associate has been called with a token and a tag whose row already
\* exists the other way round (token id in tag_id1, tag id in tag_id2)
C1_Witness ==
  /\ txn[1].pc = "createSchema"
  /\ \E i \in 1..Len(tags_associations) :
       \E r, s \in tags :
          /\ r.id = tags_associations[i].tag_id1
          /\ s.id = tags_associations[i].tag_id2
          /\ r.namespace = call[1].ns /\ s.namespace = call[1].ns
          /\ r.text \in call[1].tokens \ call[1].tags
          /\ s.text \in call[1].tags

(***************************************************************************)
(* C2: associate is idempotent and direction-invariant.  Once a call        *)
(* associate(tokens, tags, ns) has committed, the same call again, and the  *)
(* call with tokens and tags exchanged, creates no label, creates no edge   *)
(* and increments no count.                                                 *)
(***************************************************************************)
C2_IdempotentBothWays ==
  [][AssociateCommits(1) =>
       \A tokens \in ListsOf(call[1].tokens), tagz \in ListsOf(call[1].tags) :
          /\ NoWrites(tokens, tagz, call[1].ns, tags', tags_associations', now')
          /\ NoWrites(tagz, tokens, call[1].ns, tags', tags_associations', now')]_vars

(***************************************************************************)
(* C3: after a successful associate(tokens, tags, ns), for every text t of  *)
(* tags and every different text k of tokens the labels (t, ns) and (k, ns) *)
(* both exist and exactly one edge joins them, also when the collections    *)
(* share texts.                                                             *)
(***************************************************************************)
C3_EveryCrossPairJoined ==
  [][AssociateCommits(1) =>
       \A t \in call[1].tags, k \in call[1].tokens :
          t # k =>
            /\ Cardinality(Labels(tags', t, call[1].ns)) = 1
            /\ Cardinality(Labels(tags', k, call[1].ns)) = 1
            /\ \A r \in Labels(tags', t, call[1].ns), q \in Labels(tags', k, call[1].ns) :
                  Cardinality(EdgesBetween(tags_associations', r.id, q.id)) = 1]_vars

(***************************************************************************)
(* C4: a label's count equals the number of edges it takes part in, since   *)
(* every call raises the count by the number of edges the label gained.     *)
(***************************************************************************)
C4_CountIsDegree == \A r \in tags : r.count = Degree(r.id)

(***************************************************************************)
(* C5: a committing associate raises by exactly 1 the count of every label  *)
(* that is an endpoint of an edge it inserted, and leaves the count and     *)
(* updated_at of every other label as they were; no other step changes a    *)
(* row of tags.                                                             *)
(***************************************************************************)
\* ids in some row of cassocs beyond position n
EndpointsFrom(cassocs, n) ==
  {cassocs[i].tag_id1 : i \in (n + 1)..Len(cassocs)}
    \cup {cassocs[i].tag_id2 : i \in (n + 1)..Len(cassocs)}

C5_CountFrame ==
  [][/\ Len(tags_associations') >= Len(tags_associations)
     /\ SubSeq(tags_associations', 1, Len(tags_associations)) = tags_associations
     /\ \A r \in tags' :
          LET before == {q \in tags : q.id = r.id}
              gained == r.id \in EndpointsFrom(tags_associations', Len(tags_associations))
          IN  /\ gained =>
                   r.count = 1 + (IF before = {} THEN 0
                                  ELSE (CHOOSE q \in before : TRUE).count)
              /\ ~gained => IF before = {} THEN r.count = 0 ELSE r \in before]_vars

\* one label was left alone by the call that raised another one to count 2
C5_Witness ==
  /\ outcome[1] = "fulfilled"
  /\ \E r, q \in tags :
        r.count = 1 /\ q.count = 2 /\ r.updated_at < q.updated_at

(***************************************************************************)
(* C6: when a query of associate fails, the rollback leaves the committed   *)
(* rows of both tables as they were; committed rows change only in the step *)
(* that commits a transaction, and a commit that adds an edge also carries  *)
(* the count increment of both its endpoints.                               *)
(***************************************************************************)
CountOf(ctags, id) ==
  IF \E r \in ctags : r.id = id THEN (CHOOSE r \in ctags : r.id = id).count ELSE 0

C6_FailureLeavesNoTrace ==
  [][/\ \A p \in Procs :
          AssociateSettles(p) /\ outcome'[p] # "fulfilled" =>
             tags' = tags /\ tags_associations' = tags_associations
     /\ (tags' # tags \/ tags_associations' # tags_associations) =>
          /\ \E p \in Procs : txn[p].pc = "commit" /\ AssociateCommits(p)
          /\ \A id \in EndpointsFrom(tags_associations', Len(tags_associations)) :
                CountOf(tags', id) = CountOf(tags, id) + 1]_vars

\* a call was rejected with a store error while labels and an edge of
\* another call are committed
C6_Witness ==
  \E p \in Procs :
     /\ outcome[p] = "store_error"
     /\ tags # {}
     /\ tags_associations # <<>>

(***************************************************************************)
(* C7: when two concurrent associate calls race to create the same label    *)
(* or edge, the unique-key violation is recovered inside the call: no call  *)
(* settles with that error.                                                 *)
(***************************************************************************)
C7_ViolationNeverSurfaces == \A p \in Procs : outcome[p] # "unique_violation"

(***************************************************************************)
(* C8: with concurrent associate calls, the committed tags_associations     *)
(* still holds at most one row per unordered pair of label ids.             *)
(***************************************************************************)
C8_ConcurrentOneRowPerPair ==
  ~ \E i, j \in 1..Len(tags_associations) :
       /\ i < j
       /\ SamePair(tags_associations[i], tags_associations[j])

(***************************************************************************)
(* C9: no two rows of tags share (text, namespace); a call never trips the  *)
(* unique key of tags, and once it has committed every text it named has    *)
(* exactly one row, the row it had before when there was one.               *)
(***************************************************************************)
C9_OneRowPerText ==
  [][/\ \A r, q \in tags' :
          r.text = q.text /\ r.namespace = q.namespace => r = q
     /\ AssociateSettles(1) =>
          /\ outcome'[1] = "fulfilled"
          /\ \A text \in call[1].tokens \cup call[1].tags :
                /\ Cardinality(Labels(tags', text, call[1].ns)) = 1
                /\ \A r \in Labels(tags, text, call[1].ns) :
                      \E q \in Labels(tags', text, call[1].ns) : q.id = r.id]_vars

\* a call whose texts were all tags (each token also a tag) has committed:
\* its labels exist once, with count 0
C9_Witness ==
  /\ outcome[1] = "fulfilled"
  /\ \E r \in tags : r.count = 0
  /\ Cardinality(tags) >= 2

(***************************************************************************)
(* C10: namespaces are isolated.  Both endpoints of every edge are ids of   *)
(* existing labels of one namespace; an associate in one namespace changes  *)
(* no label, count or edge of another; describe in one namespace resolves   *)
(* only to labels of that namespace.                                        *)
(***************************************************************************)
\* the rows of cassocs with an endpoint that is a label of ctags outside ns
EdgesOutside(ctags, cassocs, ns) ==
  SelectSeq(cassocs, LAMBDA e :
     \E r \in ctags : r.namespace # ns /\ r.id \in {e.tag_id1, e.tag_id2})

C10_NamespaceIsolation ==
  [][/\ \A i \in 1..Len(tags_associations') :
          \E r, q \in tags' :
             /\ r.id = tags_associations'[i].tag_id1
             /\ q.id = tags_associations'[i].tag_id2
             /\ r.namespace = q.namespace
     /\ AssociateSettles(1) =>
          /\ {r \in tags' : r.namespace # call[1].ns}
               = {r \in tags : r.namespace # call[1].ns}
          /\ EdgesOutside(tags', tags_associations', call[1].ns)
               = EdgesOutside(tags, tags_associations, call[1].ns)
     /\ (call[1].op = "describe" /\ txn'[1].pc = "idle") =>
          LET ids == DescribeIds(tags, tags_associations,
                                 call[1].uniqTokens, call[1].ns)
              rows == {r \in tags : Contains(ids, r.id)}
          IN  /\ \A r \in rows : r.namespace = call[1].ns
              /\ Cardinality(rows) = Len(ids)
              /\ Range(result'[1]) = {r.text : r \in rows}]_vars

\* the same text is a label of both namespaces, both namespaces hold an
\* edge, and a describe has returned a label
C10_Witness ==
  /\ outcome[1] = "fulfilled"
  /\ result[1] # <<>>
  /\ \E r, q \in tags : r.text = q.text /\ r.namespace # q.namespace
  /\ \A ns \in Namespaces :
        \E i \in 1..Len(tags_associations) :
           \E r \in tags : r.namespace = ns /\ r.id = tags_associations[i].tag_id1

(***************************************************************************)
(* C11: describe(tokens, ns) on a store at rest returns exactly the texts   *)
(* of the labels joined by an edge, in either column, with the label of     *)
(* every token; a label joined with only some of the tokens is left out.    *)
(***************************************************************************)
\* caller p's describe settles in this step
DescribeSettles(p) == call[p].op = "describe" /\ txn'[p].pc = "idle"

C11_DescribeIsCommonNeighbours ==
  [][DescribeSettles(1) =>
       LET common == {r \in tags : \A tok \in call[1].tokens :
                        r \in AdjacentTo(tags, tags_associations, tok, call[1].ns)}
       IN  /\ outcome'[1] = "fulfilled"
           /\ Range(result'[1]) = {r.text : r \in common}
           /\ Len(result'[1]) = Cardinality(common)]_vars

\* describe has been called with two tokens while one label is joined with
\* both of them and another with one of them only
C11_Witness ==
  /\ call[1].op = "describe"
  /\ Cardinality(call[1].tokens) = 2
  /\ \E r, q \in tags :
        /\ \A tok \in call[1].tokens :
              r \in AdjacentTo(tags, tags_associations, tok, call[1].ns)
        /\ \E tok, other \in call[1].tokens :
              /\ q \in AdjacentTo(tags, tags_associations, tok, call[1].ns)
              /\ q \notin AdjacentTo(tags, tags_associations, other, call[1].ns)

(***************************************************************************)
(* C12: when a token of describe(tokens, ns) has no label in the namespace, *)
(* or its label has no edge, the call is fulfilled with an empty result     *)
(* whatever the other tokens are joined with.                               *)
(***************************************************************************)
C12_UnknownTokenGivesEmpty ==
  [][(/\ DescribeSettles(1)
      /\ \E tok \in call[1].tokens :
            \A l \in Labels(tags, tok, call[1].ns) : Degree(l.id) = 0) =>
       outcome'[1] = "fulfilled" /\ result'[1] = <<>>]_vars

\* describe has been called with a token whose label has no edge and a token
\* whose label has an edge
C12_Witness ==
  /\ call[1].op = "describe"
  /\ \E tok \in call[1].tokens :
        \E l \in Labels(tags, tok, call[1].ns) : Degree(l.id) > 0
  /\ \E tok \in call[1].tokens :
        \E l \in Labels(tags, tok, call[1].ns) : Degree(l.id) = 0

(***************************************************************************)
(* C13: exit waits for every outstanding operation: the pool is never       *)
(* destroyed while a call that was started before exit is still unsettled.  *)
(***************************************************************************)
C13_DestroyAfterAllSettled == pool = "destroyed" => exiting.outstanding = {}

(***************************************************************************)
(* C14: once exit has been called no new associate, describe or search is   *)
(* accepted: no call starts and pendingOperations is left as it is.         *)
(***************************************************************************)
C14_NoCallAfterExit ==
  [][exiting.state # "none" =>
       /\ pendingOperations' = pendingOperations
       /\ \A p \in Procs : txn[p].pc = "idle" => txn'[p].pc = "idle"]_vars

(***************************************************************************)
(* C15: after exit is called the pool is destroyed in the end, whether the  *)
(* outstanding operations are fulfilled or rejected and also when no        *)
(* operation was ever started.                                              *)
(***************************************************************************)
C15_ExitDestroysPool == (exiting.state # "none") ~> (pool = "destroyed")

(***************************************************************************)
(* C16: schema initialization is memoized: the table checks are issued at   *)
(* most once, the stored promise is never replaced, every call waits for    *)
(* it, and no call reads or writes a table before it is fulfilled.          *)
(***************************************************************************)
C16_SchemaOnce ==
  [][/\ ddl' <= 1
     /\ schemaCreated # Undefined => schemaCreated' # Undefined
     /\ schemaCreated \in {"fulfilled", "rejected"} => schemaCreated' = schemaCreated
     /\ \A p \in Procs : txn'[p].pc # "idle" => schemaCreated' # Undefined
     /\ (\/ tags' # tags
         \/ tags_associations' # tags_associations
         \/ \E p \in Procs : /\ outcome[p] = "pending"
                             /\ outcome'[p] \in {"fulfilled", "store_error"}) =>
          schemaCreated = "fulfilled"]_vars

\* both callers have had a call fulfilled, an edge is stored, and the table
\* checks were issued once
C16_Witness ==
  /\ ddl = 1
  /\ \A p \in Procs : outcome[p] = "fulfilled"
  /\ tags_associations # <<>>

(***************************************************************************)
(* C17: associate with empty tokens or empty tags, and describe with empty  *)
(* tokens, return at once: nothing but the returned value changes (no       *)
(* schema initialization, no transaction, no row, no pending operation),    *)
(* and no call with such arguments is ever started.                         *)
(***************************************************************************)
C17_EmptyCallReturnsAtOnce ==
  [][\A p \in Procs :
       /\ (returned'[p] = "undefined" /\ returned[p] # "undefined") =>
             UNCHANGED <<tags, tags_associations, now, call, txn, outcome, result,
                         schemaCreated, ddl, pendingOperations, exiting, pool>>
       /\ call'[p].op = "associate" => call'[p].tokens # {} /\ call'[p].tags # {}
       /\ call'[p].op = "describe" => call'[p].uniqTokens # <<>>]_vars

\* a call returned at once on a new instance: createSchema has not been
\* called and nothing is pending
C17_Witness ==
  /\ \E p \in Procs : returned[p] = "undefined"
  /\ schemaCreated = Undefined
  /\ ddl = 0
  /\ pendingOperations = NoOperations
  /\ tags = {}

(***************************************************************************)
(* C18: on a store that holds none of the texts, associate(tokens, tags,    *)
(* ns) with disjoint collections creates the labels with ascending ids in   *)
(* the order of first appearance in tokens followed by tags, and appends    *)
(* one row per tag and token with the tag's id in tag_id1 and the token's   *)
(* id in tag_id2, the rows of one tag together, tags in their order.        *)
(***************************************************************************)
\* the rows for the tags and tokens of allTags, given the id of each text
TagMajor(allTags, tokens, tagz, id(_)) ==
  LET tagTexts == SelectSeq(allTags, LAMBDA x : x \in tagz)
      tokenTexts == SelectSeq(allTags, LAMBDA x : x \in tokens)
      n == Len(tokenTexts)
  IN  [k \in 1..(Len(tagTexts) * n) |->
         [tag_id1 |-> id(tagTexts[((k - 1) \div n) + 1]),
          tag_id2 |-> id(tokenTexts[((k - 1) % n) + 1])]]

C19_NoSelfLoop ==
  [][/\ \A i \in 1..Len(tags_associations') :
          tags_associations'[i].tag_id1 # tags_associations'[i].tag_id2
     /\ AssociateSettles(1) =>
          LET t == RunQueries(call[1], BeginTxn, tags, tags_associations,
                              MaxId(AllTagRows), now)
              fetchedTags == t.scope.fetchedTags
              tagIds == TagIds(fetchedTags, call[1].tags)
              tokenIds == TokenIds(fetchedTags, call[1].tags)
              associations == Associations(tagIds, tokenIds)
          IN  /\ Range(tagIds) \cap Range(tokenIds) = {}
              /\ Range(tagIds) \cup Range(tokenIds) = Range(PluckId(fetchedTags))
              /\ \A i \in 1..Len(fetchedTags) :
                    fetchedTags[i].text \in call[1].tags =>
                       fetchedTags[i].id \in Range(tagIds)
              /\ \A i \in 1..Len(associations) :
                    associations[i].tag_id1 # associations[i].tag_id2]_vars

\* associate has been called with a text that is both a token and a tag,
\* next to a token that is no tag
C19_Witness ==
  /\ call[1].op = "associate"
  /\ call[1].tokens \cap call[1].tags # {}
  /\ call[1].tokens \ call[1].tags # {}

(***************************************************************************)
(* C20: the committed rows only grow: no step removes a row of tags or of   *)
(* tags_associations, changes the id, text or namespace of a label or the   *)
(* ids of a row of tags_associations, or lowers a count.                    *)
(***************************************************************************)
C20_OnlyGrows ==
  [][/\ \A r \in tags :
          \E q \in tags' : /\ q.id = r.id
                           /\ q.text = r.text
                           /\ q.namespace = r.namespace
                           /\ q.count >= r.count
     /\ Len(tags_associations') >= Len(tags_associations)
     /\ SubSeq(tags_associations', 1, Len(tags_associations)) = tags_associations]_vars

\* with an edge stored, a call has resolved to a list of texts and a call
\* has been rejected by the store
C20_Witness ==
  /\ tags_associations # <<>>
  /\ \E p \in Procs : outcome[p] = "fulfilled" /\ result[p] # <<>>
  /\ \E p \in Procs : outcome[p] = "store_error"

(***************************************************************************)
(* C21: looking the existing rows up by tag_id1 over the ids of all labels  *)
(* of the call and comparing equal-or-reversed gives the same missing       *)
(* associations as taking the rows with either id among the tags' ids and   *)
(* comparing unordered pairs; so with calls one after another the insert    *)
(* never trips the unique key of tags_associations.                         *)
(***************************************************************************)
\* the candidates that no row of cassocs touching an id of tagIds joins
MissingByEitherEndpoint(associations, cassocs, tagIds) ==
  LET touching == SelectSeq(cassocs, LAMBDA e :
                     Contains(tagIds, e.tag_id1) \/ Contains(tagIds, e.tag_id2))
  IN  SelectSeq(associations, LAMBDA a :
         ~ \E i \in 1..Len(touching) : SamePair(a, touching[i]))

C21_LookupFindsEveryExistingPair ==
  [][AssociateSettles(1) =>
       LET t == RunQueries(call[1], BeginTxn, tags, tags_associations,
                           MaxId(AllTagRows), now)
           tagIds == TagIds(t.scope.fetchedTags, call[1].tags)
           tokenIds == TokenIds(t.scope.fetchedTags, call[1].tags)
       IN  /\ t.scope.missingAssocs =
                MissingByEitherEndpoint(Associations(tagIds, tokenIds),
                                        tags_associations, tagIds)
           /\ ~AssocsUniqueViolated(tags_associations, t.scope.missingAssocs)
           /\ outcome'[1] = "fulfilled"]_vars

\* associate has been called with a tag and a token joined by a row that
\* has the token's id in tag_id1, and with a tag and a token not yet joined
C21_Witness ==
  /\ call[1].op = "associate"
  /\ \E r, q \in tags :
        /\ r.text \in call[1].tags /\ q.text \in call[1].tokens \ call[1].tags
        /\ \E i \in 1..Len(tags_associations) :
              tags_associations[i] = [tag_id1 |-> q.id, tag_id2 |-> r.id]
  /\ \E r, q \in tags :
        /\ r.text \in call[1].tags /\ q.text \in call[1].tokens \ call[1].tags
        /\ EdgesBetween(tags_associations, r.id, q.id) = {}

(***************************************************************************)
(* C23: when the first schema initialization fails the failure stays        *)
(* memoized: the stored promise stays rejected, the table checks are never  *)
(* issued again, every call that settles from then on is rejected with the  *)
(* error of the initialization, and no row changes.                         *)
(***************************************************************************)
C23_SchemaFailureIsKept ==
  [][schemaCreated = "rejected" =>
       /\ schemaCreated' = "rejected"
       /\ ddl' = ddl
       /\ tags' = tags
       /\ tags_associations' = tags_associations
       /\ \A p \in Procs :
             outcome[p] = "pending" /\ outcome'[p] # "pending" =>
                outcome'[p] = "schema_error"]_vars

\* the initialization was rejected after its table checks were issued once;
\* one caller has been rejected with its error, and the call of the other,
\* the latest made on the instance, waits for the stored promise
C23_Witness ==
  /\ schemaCreated = "rejected"
  /\ ddl = 1
  /\ \E p, q \in Procs :
        /\ p # q
        /\ outcome[p] = "schema_error"
        /\ outcome[q] = "pending"
        /\ pendingOperations.promises = <<q>>

(***************************************************************************)
(* C24: in every committed state every label is an endpoint of at least    *)
(* one edge and has a count of at least 1.                                  *)
(***************************************************************************)
C24_EveryLabelConnected ==
  \A r \in tags : Degree(r.id) >= 1 /\ r.count >= 1

(***************************************************************************)
(* C22: a describe whose queries and lookup run outside a transaction while *)
(* associate calls commit in between returns at least the answer on the     *)
(* rows committed when it was called and at most the answer on the rows     *)
(* committed when it settles: every text it returns is joined with every    *)
(* token in the final state.                                                *)
(***************************************************************************)
C22_DescribeBetweenStartAndEnd ==
  [][DescribeSettles(1) =>
       /\ outcome'[1] = "fulfilled"
       /\ txn[1].atStart \subseteq Range(result'[1])
       /\ Range(result'[1]) \subseteq
            CommonTexts(tags', tags_associations', call[1].tokens, call[1].ns)]_vars

\* describe waits for a query while the answer it got to another one is no
\* longer the answer of the committed rows
C22_Witness ==
  /\ txn[1].pc = "describeQueries"
  /\ \E i \in txn[1].scope.answered :
        txn[1].scope.allIds[i] # NeighbourIds(tags, tags_associations,
                                              call[1].uniqTokens[i], call[1].ns)

====
